---- MODULE Spec2Model ----
(***************************************************************************)
(* Model of two reconcilers of cloud-run-events:                           *)
(*   - the GCS source reconciler      (pkg/reconciler/gcs/gcs.go)          *)
(*   - the PubSubSource reconciler    (package pubsubsource)               *)
(* One record (one key) is reconciled.  The object store, the informer     *)
(* cache the listers read from, the external provider (Pub/Sub topics and  *)
(* subscriptions, bucket notifications) and the reconcile pass itself are  *)
(* modelled; a pass is cut into steps at every external call so that a     *)
(* crash or an environment change can fall between any two calls.          *)
(***************************************************************************)
EXTENDS Integers, Sequences, FiniteSets, TLC

\* ------------------------------------------------------------------ bounds
\* number of UUIDs uuid.New() may hand out in one behaviour
MaxUUID == 2
\* number of notification ids the storage provider may hand out
MaxNotif == 2

\* number of disturbances in one behaviour: failed calls, crashes, external
\* deletions, writes by another writer, changes of the sink
MaxEvents == 1
\* Deployments that may exist for the source
MaxDeployments == 2
\* longest list of event types handed to toStorageEventTypes
MaxTypes == 3

\* ------------------------------------------------------------- vocabulary
finalizerName == "controller-agent"
foreignFinalizer == "a.foreign"
\* lexical order of the finalizer names, as sets.String.List() sorts them
FinOrder == <<foreignFinalizer, finalizerName>>

NoErr == "nil"
\* the generation of the record (the spec is not edited in this model)
Generation == 1

\* sets.NewString(list...)
NewString(list) == {list[i] : i \in DOMAIN list}
\* sets.String.List(): the members, sorted
List(S) == SelectSeq(FinOrder, LAMBDA f : f \in S)

HasFinalizer(fins) == finalizerName \in NewString(fins)

addFinalizer(fins) == List(NewString(fins) \cup {finalizerName})
removeFinalizer(fins) == List(NewString(fins) \ {finalizerName})

\* ----------------------------------------------------------------- status
\* An empty status: no identifier, no condition (condition "" = absent).
\* Topic and NotificationID are numbers: 0 is the empty string, n > 0 is
\* the n-th name handed out ("gcs-<uuid n>", notification id n).
GCSEmptyStatus ==
  [Topic |-> 0, NotificationID |-> 0, SinkURI |-> "",
   TopicReady |-> "", PubSubReady |-> "", GCSReady |-> "", other |-> FALSE]

PubSubEmptyStatus ==
  [ProjectID |-> "", SinkURI |-> "", SinkProvided |-> "", Subscribed |-> "",
   Deployed |-> "", ObservedGeneration |-> 0, other |-> FALSE]

EmptyStatus(k) == IF k = "GCS" THEN GCSEmptyStatus ELSE PubSubEmptyStatus

InitCond(c) == IF c = "" THEN "Unknown" ELSE c

\* GCSStatus.InitializeConditions: absent conditions become Unknown
GCSInitializeConditions(st) ==
  [st EXCEPT !.TopicReady = InitCond(@), !.PubSubReady = InitCond(@),
             !.GCSReady = InitCond(@)]

\* PubSubSourceStatus.InitializeConditions
PubSubInitializeConditions(st) ==
  [st EXCEPT !.SinkProvided = InitCond(@), !.Subscribed = InitCond(@),
             !.Deployed = InitCond(@)]

\* GCSStatus.IsReady / PubSubSourceStatus.IsReady: every condition is True
IsReady(st) ==
  IF "TopicReady" \in DOMAIN st
    THEN st.TopicReady = "True" /\ st.PubSubReady = "True"
         /\ st.GCSReady = "True"
    ELSE st.SinkProvided = "True" /\ st.Subscribed = "True"
         /\ st.Deployed = "True"

\* ---------------------------------------------------------------- records
\* the record once the store has physically removed it
Gone(k) == [exists |-> FALSE, deleting |-> FALSE, fins |-> <<>>, rv |-> 0,
            status |-> EmptyStatus(k)]

\* the store removes a deleting record as soon as its finalizer list is empty
Collect(k, r) == IF r.deleting /\ r.fins = <<>> THEN Gone(k) ELSE r

\* Resource versions are opaque tokens that are only compared for equality
\* with the stored one.  The model numbers them relative to the informer's
\* copy: the cache holds version 0, every persisted write adds one to the
\* stored version, and a sync of the informer renumbers the stored version
\* to 0.  So store.rv is the number of writes the cache has not seen yet.
VARIABLES
  kind,        \* which reconciler this behaviour runs: "GCS" or "PubSubSource"
  spec,        \* the record's spec: [Project, Topic]
  store,       \* the record as persisted in the object store
  cache,       \* the informer's copy, read by the listers; may lag the store
  pc,          \* position of the reconcile pass ("idle" between passes)
  orig,        \* `original`: the record as loaded from the lister
  work,        \* the deep copy the pass mutates (csr / source)
  rerr,        \* the error reconcileGCSSource / reconcile returned
  uri,         \* the sink URI resolved by this pass ("" when unresolved)
  result,      \* what the last Reconcile returned ("none" before the first)
  topics,      \* Pub/Sub topics that exist at the provider
  notifs,      \* bucket notifications that exist at the provider
  uuidCtr,     \* UUIDs handed out so far
  notifCtr,    \* notification ids handed out so far
  pullsub,     \* the PullSubscription object of the GCS: none/notready/ready
  subExists,   \* the Pub/Sub subscription of the PubSubSource exists
  deployments, \* receive-adapter Deployments owned by the PubSubSource
  sinkOK,      \* the sink reference currently resolves
  events,      \* disturbances so far
  calls,       \* history: what the current (or last) pass observed and did
  quiet        \* history: the last pass returned nil and nothing changed since

\* The operation job (package operations, JobOps): one run of its binary.
VARIABLES
  job,         \* the JobOps of the run: its environment and its client
  jpc,         \* "none": no job is run; "start": before Run; "done": after
  jret,        \* what Run returned ("none" before it returned)
  termLog,     \* the records written to /dev/termination-log, in order
  args,        \* the JobArgs the controller builds an operation job from
  built,       \* the batch Jobs NewJobOps returned for args, in order
  eventTypes,  \* the list handed to toStorageEventTypes
  storageTypes \* whether toStorageEventTypes returned, and what

jobVars == <<job, jpc, jret, termLog, args, built, eventTypes, storageTypes>>

\* The KEDA PullSubscription controller (package keda, newController): what
\* its informers hold and what its event handlers enqueue.
VARIABLES
  pullsubs,    \* the PullSubscriptions of the informer's store, by key
  dep,         \* a Deployment of the informer's store
  queue,       \* the keys in the work queue of impl
  last         \* history: the last notification and what it enqueued

kedaVars == <<pullsubs, dep, queue, last>>

recVars == <<kind, spec, store, cache, pc, orig, work, rerr, uri, result,
             topics, notifs, uuidCtr, notifCtr, pullsub, subExists,
             deployments, sinkOK, events, calls, quiet>>

vars == <<kind, spec, store, cache, pc, orig, work, rerr, uri, result, topics,
          notifs, uuidCtr, notifCtr, pullsub, subExists, deployments, sinkOK,
          events, calls, quiet, job, jpc, jret, termLog, args, built,
          eventTypes, storageTypes, pullsubs, dep, queue, last>>

extVars == <<topics, notifs, uuidCtr, notifCtr, pullsub, subExists,
             deployments>>

\* history of one pass
NoCalls ==
  [chkTopic |-> "none", crTopic |-> FALSE,
   chkNotif |-> "none", crNotif |-> FALSE,
   chkSub |-> "none", crSub |-> FALSE,
   del |-> {}, stWrite |-> FALSE, stOK |-> FALSE, finPatch |-> FALSE,
   conflict |-> FALSE, fault |-> FALSE, dist |-> FALSE, fresh |-> FALSE,
   idem |-> FALSE, noSink |-> FALSE, gone |-> FALSE,
   psObs |-> "none", md |-> "none", lsDep |-> "none", crDep |-> FALSE,
   cmark |-> FALSE, retry |-> FALSE, mark |-> FALSE]

Fresh(k, f) == [exists |-> TRUE, deleting |-> FALSE, fins |-> f, rv |-> 0,
                status |-> EmptyStatus(k)]

\* a JobOps with nothing set
NoJob == [Action |-> "", Project |-> "", Topic |-> "", Bucket |-> "",
          JobId |-> "", client |-> "nil"]

\* the owner of an operation job: the ObjectMeta of a ManagedResource
Owners == [Namespace : {"ns1", "ns2"}, Name : {"a", "b"}, UID : {"uid-1"}]

\* JobArgs with nothing set
NoArgs == [UID |-> "", Image |-> "", Action |-> "", ProjectID |-> "",
           Bucket |-> "", TopicID |-> "", JobId |-> "", EventTypes |-> <<>>,
           Owner |-> [Namespace |-> "", Name |-> "", UID |-> ""]]

\* toStorageEventTypes was not called
NoReturn == [returned |-> FALSE, value |-> <<>>]

\* no operation job is run or built
JobIdle ==
  /\ job = NoJob
  /\ jpc = "none"
  /\ jret = "none"
  /\ termLog = <<>>
  /\ args = NoArgs
  /\ built = <<>>
  /\ eventTypes = <<>>
  /\ storageTypes = NoReturn

\* the keys of the PullSubscriptions, and the key of the Deployment
Keys == {"ns/a", "ns/b"}
DeploymentKey == "ns/ra"

\* no object (an informer's store without the key)
Absent == [key |-> "", ann |-> {}, owner |-> ""]

\* no notification yet
NoNote == [kind |-> "none", verb |-> "none", old |-> Absent, new |-> Absent,
           enq |-> {}]

\* the informers are empty and nothing is enqueued
KedaIdle ==
  /\ pullsubs = [k \in Keys |-> Absent]
  /\ dep = Absent
  /\ queue = {}
  /\ last = NoNote

\* the finalizer lists a record may carry when the controller first sees it:
\* none, another controller's, or this controller's own (the API server
\* accepts any metadata.finalizers from the client that creates the record)
InitialFinalizers == {<<>>, <<foreignFinalizer>>, <<finalizerName>>}

ReconcilerInit ==
  /\ kind \in {"GCS", "PubSubSource"}
  /\ spec \in [Project : {"", "p"}, Topic : {"", "t"}]
  /\ kind = "GCS" => spec = [Project |-> "p", Topic |-> ""]
  /\ \E f \in InitialFinalizers :
       /\ store = Fresh(kind, f)
       /\ cache = store
  /\ orig = Gone(kind)
  /\ work = Gone(kind)
  /\ pc = "idle"
  /\ rerr = NoErr
  /\ uri = ""
  /\ result = "none"
  /\ topics = {}
  /\ notifs = {}
  /\ uuidCtr = 0
  /\ notifCtr = 0
  /\ pullsub = "none"
  /\ subExists = FALSE
  /\ deployments = 0
  /\ sinkOK \in BOOLEAN
  /\ events = 0
  /\ calls = NoCalls
  /\ quiet = FALSE

Init == ReconcilerInit /\ JobIdle /\ KedaIdle

\* -------------------------------------------------------------- utilities
envVars == <<kind, spec, sinkOK>>

\* the history record of a pass that starts now
StartCalls ==
  [NoCalls EXCEPT !.fresh = (cache = store),
                  !.gone = ~cache.exists,
                  !.idem = (quiet /\ cache = store),
                  !.retry = calls.conflict,
                  !.mark = (calls.conflict /\ calls.cmark)]

\* Reconcile returns e; its locals go out of scope.  q: the pass returned nil,
\* it had loaded the record as stored, and nothing outside it happened while
\* it ran
ReturnWith(e, q) ==
  /\ pc' = "idle"
  /\ result' = e
  /\ quiet' = q
  /\ orig' = Gone(kind)
  /\ work' = Gone(kind)
  /\ rerr' = NoErr
  /\ uri' = ""

Return(e) == ReturnWith(e, e = NoErr /\ calls.fresh /\ ~calls.dist)

\* (variant: a record the lister does not find is an error)
LoadNotFound_Error == ReturnWith("NotFound", FALSE)

\* Reconcile when the lister answers NotFound: nothing to do, return nil
LoadNotFound == ReturnWith(NoErr, cache = store)

\* an injected failure of a call to the provider or to the API server
Fault(c) == [c EXCEPT !.fault = TRUE]

\* a call answers e; the failure "Unavailable" is a disturbance
Answer(e) ==
  /\ e = "Unavailable" => events < MaxEvents
  /\ events' = IF e = "Unavailable" THEN events + 1 ELSE events

\* a disturbance that is not the answer of a call
Event ==
  /\ events < MaxEvents
  /\ events' = events + 1

\* UpdateStatus / Patch requests carry the resource version read from the
\* lister; the API server rejects a request for a record that is gone or whose
\* resource version is not the stored one.
WriteOutcome(source) ==
  IF ~store.exists THEN "NotFound"
  ELSE IF source.rv # store.rv THEN "Conflict"
  ELSE NoErr

\* (variant: the pass works on the lister's object itself)
InformersCopy_Shared(listed, copy) == copy

\* DeepCopy: the object a step mutates shares nothing with the lister's
\* object it was copied from, which therefore is afterwards as it was
InformersCopy(listed, copy) == listed

\* ======================================================= GCS reconciler ==
\* reconcileTopic: the name to use, generating one when status has none
TopicName(st) == IF st.Topic = 0 THEN uuidCtr + 1 ELSE st.Topic

\* (variant: CreateTopic is called whatever Exists reported)
TopicMustBeCreated_Always(exists) == TRUE

\* reconcileTopic creates the topic only when Exists reported false
TopicMustBeCreated(exists) == ~exists

\* reconcileNotification creates a notification unless the recorded id is
\* among the notifications listed for the bucket
NotificationMustBeCreated(id, listed) == ~(id # 0 /\ id \in listed)

\* gstatus.FromError / codes.NotFound: which delete errors count as success
DeleteErrorIgnored(e) == e = "NotFound"

\* equality.Semantic.DeepEqual
DeepEqual(a, b) == a = b

\* (variant: an unresolved sink ends reconcileGCSSource for every record)
SinkRequired_Always(csr) == TRUE

\* (variant: an unresolved sink never ends reconcileGCSSource)
SinkRequired_Never(csr) == FALSE

\* reconcileGCSSource returns the error of GetSinkURI unless the record is
\* being deleted
SinkRequired(csr) == ~csr.deleting

\* Reconcile, up to the first external call: load from the lister, deep copy,
\* resolve the sink, branch on the deletion timestamp.
G_Load ==
  /\ kind = "GCS" /\ pc = "idle"
  /\ calls' = [StartCalls EXCEPT !.noSink = (cache.exists /\ ~sinkOK)]
  /\ UNCHANGED events
  /\ IF ~cache.exists
       THEN LoadNotFound
       ELSE /\ orig' = cache
            /\ uri' = IF sinkOK THEN "uri" ELSE ""
            /\ UNCHANGED <<result, quiet>>
            /\ IF ~sinkOK /\ SinkRequired(cache)
                 THEN /\ work' = cache
                      /\ rerr' = "sink"
                      /\ pc' = "g_update"
                 ELSE IF cache.deleting
                 THEN /\ work' = cache
                      /\ rerr' = NoErr
                      /\ pc' = "g_delNotif"
                 ELSE /\ work' = [cache EXCEPT
                                    !.status = GCSInitializeConditions(@)]
                      /\ rerr' = NoErr
                      /\ pc' = "g_topic"
  /\ cache' = InformersCopy(cache, work')
  /\ UNCHANGED <<store, extVars, envVars>>
  /\ UNCHANGED <<jobVars, kedaVars>>

\* deleteNotification, and reconcileGCSSource's handling of its error
G_DeleteNotification ==
  /\ kind = "GCS" /\ pc = "g_delNotif"
  /\ LET id == work.status.NotificationID IN
     IF id = 0
       THEN /\ pc' = "g_delTopic"
            /\ UNCHANGED <<notifs, calls, rerr, events>>
       ELSE \E e \in {NoErr, "NotFound", "Unavailable"} : Answer(e) /\
              /\ e = NoErr => id \in notifs
              /\ e = "NotFound" => id \notin notifs
              /\ notifs' = IF e = NoErr THEN notifs \ {id} ELSE notifs
              /\ calls' = [(IF e = "Unavailable" THEN Fault(calls) ELSE calls)
                             EXCEPT !.del = @ \cup {e}]
              /\ IF e = NoErr \/ DeleteErrorIgnored(e)
                   THEN pc' = "g_delTopic" /\ UNCHANGED rerr
                   ELSE pc' = "g_update" /\ rerr' = e
  /\ cache' = InformersCopy(cache, work')
  /\ UNCHANGED <<store, orig, work, uri, result, quiet, topics, uuidCtr,
                 notifCtr, pullsub, subExists, deployments, envVars>>
  /\ UNCHANGED <<jobVars, kedaVars>>

\* reconcileGCSSource after both deletes succeeded
CleanedUp(csr) ==
  [csr EXCEPT !.status.Topic = 0, !.fins = removeFinalizer(@)]

\* (variant: the topic name is cleared and the finalizer removed whatever
\* deleteTopic returned)
AfterDeleteTopic_IgnoringError(csr, e) == CleanedUp(csr)

\* what the deletion branch leaves in csr, given the error of deleteTopic
AfterDeleteTopic(csr, e) ==
  IF e = NoErr \/ DeleteErrorIgnored(e) THEN CleanedUp(csr) ELSE csr

\* deleteTopic, then clearing the topic and removing the finalizer
G_DeleteTopic ==
  /\ kind = "GCS" /\ pc = "g_delTopic"
  /\ pc' = "g_update"
  /\ LET t == work.status.Topic IN
     IF t = 0
       THEN /\ work' = AfterDeleteTopic(work, NoErr)
            /\ rerr' = NoErr
            /\ UNCHANGED <<topics, calls, events>>
       ELSE \E e \in {NoErr, "NotFound", "Unavailable"} : Answer(e) /\
              /\ e = NoErr => t \in topics
              /\ e = "NotFound" => t \notin topics
              /\ topics' = IF e = NoErr THEN topics \ {t} ELSE topics
              /\ calls' = [(IF e = "Unavailable" THEN Fault(calls) ELSE calls)
                             EXCEPT !.del = @ \cup {e}]
              /\ work' = AfterDeleteTopic(work, e)
              /\ rerr' = IF e = NoErr \/ DeleteErrorIgnored(e) THEN NoErr ELSE e
  /\ cache' = InformersCopy(cache, work')
  /\ UNCHANGED <<store, orig, uri, result, quiet, notifs, uuidCtr,
                 notifCtr, pullsub, subExists, deployments, envVars>>
  /\ UNCHANGED <<jobVars, kedaVars>>

\* reconcileGCSSource once reconcileTopic returned nil:
\* MarkPubSubTopicReady, addFinalizer, SinkURI
TopicReconciled(csr) ==
  [csr EXCEPT !.status.TopicReady = "True", !.fins = addFinalizer(@),
              !.status.SinkURI = uri]

\* reconcileTopic up to Exists: generate the name if status has none, ask the
\* provider whether the topic exists
G_TopicExists ==
  /\ kind = "GCS" /\ pc = "g_topic"
  /\ work.status.Topic = 0 => uuidCtr < MaxUUID
  /\ LET name == TopicName(work.status)
         csr == [work EXCEPT !.status.Topic = name] IN
     /\ uuidCtr' = IF work.status.Topic = 0 THEN uuidCtr + 1 ELSE uuidCtr
     /\ \E e \in {NoErr, "Unavailable"} : Answer(e) /\
          IF e # NoErr
            THEN /\ work' = [csr EXCEPT !.status.TopicReady = "False"]
                 /\ rerr' = e
                 /\ pc' = "g_update"
                 /\ calls' = Fault(calls)
            ELSE /\ rerr' = NoErr
                 /\ calls' = [calls EXCEPT !.chkTopic =
                                IF name \in topics THEN "exists" ELSE "absent"]
                 /\ IF TopicMustBeCreated(name \in topics)
                      THEN work' = csr /\ pc' = "g_createTopic"
                      ELSE work' = TopicReconciled(csr) /\ pc' = "g_pubsub"
  /\ cache' = InformersCopy(cache, work')
  /\ UNCHANGED <<store, orig, uri, result, quiet, topics, notifs,
                 notifCtr, pullsub, subExists, deployments, envVars>>
  /\ UNCHANGED <<jobVars, kedaVars>>

\* reconcileTopic: CreateTopic
G_CreateTopic ==
  /\ kind = "GCS" /\ pc = "g_createTopic"
  /\ \E e \in {NoErr, "AlreadyExists", "Unavailable"} : Answer(e) /\
       /\ e = NoErr => work.status.Topic \notin topics
       /\ e = "AlreadyExists" => work.status.Topic \in topics
       /\ calls' = [(IF e = "Unavailable" THEN Fault(calls) ELSE calls)
                      EXCEPT !.crTopic = TRUE]
       /\ IF e = NoErr
            THEN /\ topics' = topics \cup {work.status.Topic}
                 /\ work' = TopicReconciled(work)
                 /\ rerr' = NoErr
                 /\ pc' = "g_pubsub"
            ELSE /\ topics' = topics
                 /\ work' = [work EXCEPT !.status.TopicReady = "False"]
                 /\ rerr' = e
                 /\ pc' = "g_update"
  /\ cache' = InformersCopy(cache, work')
  /\ UNCHANGED <<store, orig, uri, result, quiet, notifs, uuidCtr,
                 notifCtr, pullsub, subExists, deployments, envVars>>
  /\ UNCHANGED <<jobVars, kedaVars>>

\* (variant: the condition is marked ready whatever was observed)
PubSubSourceCondition_AlwaysReady(ready) == "True"

\* MarkPubSubSourceReady when pubsub.Status.IsReady(), else
\* MarkPubSubSourceNotReady
PubSubSourceCondition(ready) == IF ready THEN "True" ELSE "False"

\* reconcilePubSub and the PubSubSource-ready condition derived from it
G_PubSub ==
  /\ kind = "GCS" /\ pc = "g_pubsub"
  /\ \E e \in {NoErr, "Unavailable"} : Answer(e) /\
       IF e # NoErr
         THEN /\ work' = [work EXCEPT !.status.PubSubReady = "False"]
              /\ rerr' = e
              /\ pc' = "g_update"
              /\ calls' = Fault(calls)
              /\ UNCHANGED pullsub
         ELSE /\ pullsub' = IF pullsub = "none" THEN "notready" ELSE pullsub
              /\ work' = [work EXCEPT !.status.PubSubReady =
                            PubSubSourceCondition(pullsub = "ready")]
              /\ rerr' = NoErr
              /\ pc' = "g_notif"
              /\ calls' = [calls EXCEPT !.psObs =
                             IF pullsub = "ready" THEN "ready" ELSE "notready"]
  /\ cache' = InformersCopy(cache, work')
  /\ UNCHANGED <<store, orig, uri, result, quiet, topics, notifs,
                 uuidCtr, notifCtr, subExists, deployments, envVars>>
  /\ UNCHANGED <<jobVars, kedaVars>>

\* reconcileGCSSource once reconcileNotification returned a notification
NotificationReconciled(csr, id) ==
  [csr EXCEPT !.status.GCSReady = "True", !.status.NotificationID = id]

\* reconcileNotification up to the lookup in bucket.Notifications
G_ListNotifications ==
  /\ kind = "GCS" /\ pc = "g_notif"
  /\ \E e \in {NoErr, "Unavailable"} : Answer(e) /\
       IF e # NoErr
         THEN /\ work' = [work EXCEPT !.status.GCSReady = "False"]
              /\ rerr' = e
              /\ pc' = "g_update"
              /\ calls' = Fault(calls)
         ELSE LET id == work.status.NotificationID IN
              /\ calls' = [calls EXCEPT !.chkNotif =
                             IF id # 0 /\ id \in notifs THEN "exists"
                             ELSE "absent"]
              /\ rerr' = NoErr
              /\ IF NotificationMustBeCreated(id, notifs)
                   THEN work' = work /\ pc' = "g_addNotif"
                   ELSE /\ work' = NotificationReconciled(work, id)
                        /\ pc' = "g_update"
  /\ cache' = InformersCopy(cache, work')
  /\ UNCHANGED <<store, orig, uri, result, quiet, extVars, envVars>>
  /\ UNCHANGED <<jobVars, kedaVars>>

\* reconcileNotification: AddNotification
G_AddNotification ==
  /\ kind = "GCS" /\ pc = "g_addNotif"
  /\ pc' = "g_update"
  /\ \E e \in {NoErr, "Unavailable"} : Answer(e) /\
       /\ e = NoErr => notifCtr < MaxNotif
       /\ calls' = [(IF e # NoErr THEN Fault(calls) ELSE calls)
                      EXCEPT !.crNotif = TRUE]
       /\ IF e = NoErr
            THEN /\ notifCtr' = notifCtr + 1
                 /\ notifs' = notifs \cup {notifCtr + 1}
                 /\ work' = NotificationReconciled(work, notifCtr + 1)
                 /\ rerr' = NoErr
            ELSE /\ UNCHANGED <<notifCtr, notifs>>
                 /\ work' = [work EXCEPT !.status.GCSReady = "False"]
                 /\ rerr' = e
  /\ cache' = InformersCopy(cache, work')
  /\ UNCHANGED <<store, orig, uri, result, quiet, topics, uuidCtr,
                 pullsub, subExists, deployments, envVars>>
  /\ UNCHANGED <<jobVars, kedaVars>>

\* (variant: updateStatus without its "nothing to update" check)
StatusUnchanged_Never(source, desired) == FALSE

\* updateStatus skips the write when the lister's status equals the desired
StatusUnchanged(source, desired) == DeepEqual(source.status, desired.status)

\* ObjectMeta as far as a pass can change it
Meta(r) == [fins |-> r.fins, deleting |-> r.deleting, rv |-> r.rv]

\* history of an UpdateStatus request that got answer e
StatusCall(c, e) ==
  [c EXCEPT !.stWrite = TRUE, !.stOK = (e = NoErr),
            !.conflict = (e = "Conflict"),
            !.cmark = (e = "Conflict" /\ store.status.other),
            !.fault = (@ \/ e = "Unavailable")]

\* Reconcile after reconcileGCSSource: compare with the original, updateStatus
G_Update ==
  /\ kind = "GCS" /\ pc = "g_update"
  /\ IF DeepEqual(orig.status, work.status) /\ DeepEqual(Meta(orig), Meta(work))
       THEN /\ Return(rerr)
            /\ UNCHANGED <<store, cache, calls, events>>
       ELSE IF ~cache.exists
       THEN /\ Return("NotFound")
            /\ UNCHANGED <<store, cache, calls, events>>
       ELSE IF StatusUnchanged(cache, work)
       THEN /\ Return(rerr)
            /\ UNCHANGED <<store, cache, calls, events>>
       ELSE \E e \in {WriteOutcome(cache), "Unavailable"} : Answer(e) /\
              /\ store' = IF e = NoErr
                            THEN [store EXCEPT !.status = work.status,
                                               !.rv = @ + 1]
                            ELSE store
              /\ calls' = StatusCall(calls, e)
              /\ cache' = InformersCopy(cache,
                             [cache EXCEPT !.status = work.status])
              /\ Return(IF e # NoErr THEN e ELSE rerr)
  /\ UNCHANGED <<extVars, envVars>>
  /\ UNCHANGED <<jobVars, kedaVars>>

\* ================================================ PubSubSource reconciler ==
\* (variant: the metadata server is asked first, the spec used as fallback)
resolveProjectID_MetadataFirst(st, md) ==
  IF md # ""
    THEN [st |-> [st EXCEPT !.ProjectID = md], err |-> NoErr, md |-> "ok"]
  ELSE IF spec.Project # ""
    THEN [st |-> [st EXCEPT !.ProjectID = spec.Project], err |-> NoErr,
          md |-> "failed"]
  ELSE [st |-> st, err |-> "project is required but not set",
        md |-> "failed"]

\* resolveProjectID; md is the answer of the metadata server ("" = error).
\* The result's md tells whether metadata.ProjectID was called and how it
\* answered.
resolveProjectID(st, md) ==
  IF spec.Project # ""
    THEN [st |-> [st EXCEPT !.ProjectID = spec.Project], err |-> NoErr,
          md |-> "none"]
  ELSE IF md # ""
    THEN [st |-> [st EXCEPT !.ProjectID = md], err |-> NoErr, md |-> "ok"]
  ELSE [st |-> st, err |-> "project is required but not set",
        md |-> "failed"]

\* createSubscription creates only when Exists reported false
SubscriptionMustBeCreated(exists) == ~exists

\* (variant: the generation is recorded as observed once subscribed)
Subscribed_Observed(src) ==
  [src EXCEPT !.fins = addFinalizer(@), !.status.Subscribed = "True",
              !.status.ObservedGeneration = Generation]

\* reconcile once createSubscription returned: addFinalizer, MarkSubscribed
Subscribed(src) ==
  [src EXCEPT !.fins = addFinalizer(@), !.status.Subscribed = "True"]

\* (variant: the finalizer is removed whatever deleteSubscription returned)
AfterDeleteSubscription_IgnoringError(src, e) ==
  [src EXCEPT !.fins = removeFinalizer(@)]

\* reconcile's deletion branch, given the error of deleteSubscription
AfterDeleteSubscription(src, e) ==
  IF e = NoErr THEN [src EXCEPT !.fins = removeFinalizer(@)] ELSE src

\* Reconcile and reconcile up to the first provider call: load, deep copy,
\* InitializeConditions, resolveProjectID, then the deletion branch or the sink
P_Load ==
  /\ kind = "PubSubSource" /\ pc = "idle"
  /\ IF ~cache.exists
       THEN /\ LoadNotFound
            /\ calls' = StartCalls
            /\ UNCHANGED events
       ELSE \E md \in {"", "metadata-project"} :
            LET r == resolveProjectID(PubSubInitializeConditions(cache.status),
                                      md)
                src == [cache EXCEPT !.status = r.st] IN
            /\ orig' = cache
            /\ Answer(IF r.err # NoErr THEN "Unavailable" ELSE NoErr)
            /\ calls' = IF r.err # NoErr
                           THEN [Fault(StartCalls) EXCEPT !.md = r.md]
                           ELSE [StartCalls EXCEPT
                                   !.md = r.md,
                                   !.noSink = (~cache.deleting /\ ~sinkOK)]
            /\ UNCHANGED <<result, quiet>>
            /\ IF r.err # NoErr
                 THEN work' = src /\ rerr' = r.err /\ pc' = "p_updFin"
                      /\ uri' = ""
                 ELSE IF cache.deleting
                 THEN work' = src /\ rerr' = NoErr /\ pc' = "p_delExists"
                      /\ uri' = ""
                 ELSE IF ~sinkOK
                 THEN /\ work' = [src EXCEPT !.status.SinkProvided = "False"]
                      /\ rerr' = "sink"
                      /\ pc' = "p_updFin"
                      /\ uri' = ""
                 ELSE /\ work' = [src EXCEPT !.status.SinkProvided = "True",
                                             !.status.SinkURI = "uri"]
                      /\ rerr' = NoErr
                      /\ pc' = "p_sub"
                      /\ uri' = "uri"
  /\ cache' = InformersCopy(cache, work')
  /\ UNCHANGED <<store, extVars, envVars>>
  /\ UNCHANGED <<jobVars, kedaVars>>

\* createSubscription up to Exists
P_SubExists ==
  /\ kind = "PubSubSource" /\ pc = "p_sub"
  /\ IF work.status.ProjectID = ""
       THEN /\ rerr' = "project is required but not set"
            /\ pc' = "p_updFin"
            /\ UNCHANGED <<work, calls, events>>
       ELSE IF spec.Topic = ""
       THEN /\ rerr' = "topic is required but not set"
            /\ pc' = "p_updFin"
            /\ UNCHANGED <<work, calls, events>>
       ELSE \E e \in {NoErr, "Unavailable"} : Answer(e) /\
            IF e # NoErr
              THEN /\ rerr' = e
                   /\ pc' = "p_updFin"
                   /\ calls' = Fault(calls)
                   /\ UNCHANGED work
              ELSE /\ rerr' = NoErr
                   /\ calls' = [calls EXCEPT !.chkSub =
                                  IF subExists THEN "exists" ELSE "absent"]
                   /\ IF SubscriptionMustBeCreated(subExists)
                        THEN work' = work /\ pc' = "p_createSub"
                        ELSE work' = Subscribed(work) /\ pc' = "p_ra"
  /\ cache' = InformersCopy(cache, work')
  /\ UNCHANGED <<store, orig, uri, result, quiet, extVars, envVars>>
  /\ UNCHANGED <<jobVars, kedaVars>>

\* createSubscription: CreateSubscription
P_CreateSub ==
  /\ kind = "PubSubSource" /\ pc = "p_createSub"
  /\ \E e \in {NoErr, "AlreadyExists", "Unavailable"} : Answer(e) /\
       /\ e = NoErr => ~subExists
       /\ e = "AlreadyExists" => subExists
       /\ calls' = [(IF e = "Unavailable" THEN Fault(calls) ELSE calls)
                      EXCEPT !.crSub = TRUE]
       /\ rerr' = e
       /\ IF e = NoErr
            THEN subExists' = TRUE /\ work' = Subscribed(work) /\ pc' = "p_ra"
            ELSE UNCHANGED <<subExists, work>> /\ pc' = "p_updFin"
  /\ cache' = InformersCopy(cache, work')
  /\ UNCHANGED <<store, orig, uri, result, quiet, topics, notifs,
                 uuidCtr, notifCtr, pullsub, deployments, envVars>>
  /\ UNCHANGED <<jobVars, kedaVars>>

\* getReceiveAdapter: the Deployments listed by the source's labels, of which
\* owned are controlled by the source; NotFound when none is
getReceiveAdapter(listErr, owned) ==
  IF listErr # NoErr THEN [ra |-> 0, err |-> listErr]
  ELSE IF owned > 0 THEN [ra |-> 1, err |-> NoErr]
  ELSE [ra |-> 0, err |-> "NotFound"]

\* (variant: a Deployment is created whatever getReceiveAdapter returned)
ReceiveAdapterMustBeCreated_Always(got) == TRUE

\* createReceiveAdapter creates a Deployment when getReceiveAdapter returned
\* no error but NotFound and no Deployment
ReceiveAdapterMustBeCreated(got) ==
  ~(got.err # NoErr /\ got.err # "NotFound") /\ got.ra = 0

\* createReceiveAdapter, then MarkDeployed and ObservedGeneration
P_ReceiveAdapter ==
  /\ kind = "PubSubSource" /\ pc = "p_ra"
  /\ pc' = "p_updFin"
  /\ \E le \in {NoErr, "Unavailable"}, ce \in {NoErr, "Unavailable"} :
       LET got == getReceiveAdapter(le, deployments)
           create == ReceiveAdapterMustBeCreated(got)
           e == IF create THEN ce
                ELSE IF got.ra # 0 THEN NoErr ELSE got.err IN
       /\ ~create => ce = NoErr
       /\ (create /\ ce = NoErr) => deployments < MaxDeployments
       /\ Answer(IF "Unavailable" \in {le, e} THEN "Unavailable" ELSE NoErr)
       /\ rerr' = e
       /\ calls' = [(IF "Unavailable" \in {le, e} THEN Fault(calls)
                      ELSE calls)
                      EXCEPT !.lsDep = IF le # NoErr THEN "failed"
                                       ELSE IF got.ra # 0 THEN "found"
                                       ELSE "absent",
                             !.crDep = create]
       /\ deployments' = IF create /\ ce = NoErr THEN deployments + 1
                          ELSE deployments
       /\ work' = IF e = NoErr
                    THEN [work EXCEPT !.status.Deployed = "True",
                            !.status.ObservedGeneration = Generation]
                    ELSE work
  /\ cache' = InformersCopy(cache, work')
  /\ UNCHANGED <<store, orig, uri, result, quiet, topics, notifs,
                 uuidCtr, notifCtr, pullsub, subExists, envVars>>
  /\ UNCHANGED <<jobVars, kedaVars>>

\* deleteSubscription up to Exists
P_DelExists ==
  /\ kind = "PubSubSource" /\ pc = "p_delExists"
  /\ IF work.status.ProjectID = ""
       THEN /\ rerr' = "project is required but not set"
            /\ pc' = "p_updFin"
            /\ UNCHANGED <<work, calls, events>>
       ELSE \E e \in {NoErr, "Unavailable"} : Answer(e) /\
            /\ rerr' = e
            /\ calls' = IF e # NoErr THEN Fault(calls) ELSE calls
            /\ IF e # NoErr
                 THEN pc' = "p_updFin" /\ UNCHANGED work
                 ELSE IF ~subExists
                 THEN /\ work' = AfterDeleteSubscription(work, NoErr)
                      /\ pc' = "p_updFin"
                 ELSE pc' = "p_delete" /\ UNCHANGED work
  /\ cache' = InformersCopy(cache, work')
  /\ UNCHANGED <<store, orig, uri, result, quiet, extVars, envVars>>
  /\ UNCHANGED <<jobVars, kedaVars>>

\* deleteSubscription: sub.Delete, and reconcile's handling of its error
P_Delete ==
  /\ kind = "PubSubSource" /\ pc = "p_delete"
  /\ pc' = "p_updFin"
  /\ \E e \in {NoErr, "NotFound", "Unavailable"} : Answer(e) /\
       /\ e = NoErr => subExists
       /\ e = "NotFound" => ~subExists
       /\ subExists' = IF e = NoErr THEN FALSE ELSE subExists
       /\ calls' = [(IF e = "Unavailable" THEN Fault(calls) ELSE calls)
                      EXCEPT !.del = @ \cup {e}]
       /\ work' = AfterDeleteSubscription(work, e)
       /\ rerr' = e
  /\ cache' = InformersCopy(cache, work')
  /\ UNCHANGED <<store, orig, uri, result, quiet, topics, notifs,
                 uuidCtr, notifCtr, pullsub, deployments, envVars>>
  /\ UNCHANGED <<jobVars, kedaVars>>

\* (variant: the patch carries the working copy's finalizer list)
PatchedFinalizers_Desired(existing, desired) == desired

\* updateFinalizers: the finalizer list to patch, from the lister's list
PatchedFinalizers(existing, desired) ==
  IF HasFinalizer(desired)
    THEN Append(existing, finalizerName)
    ELSE List(NewString(existing) \ {finalizerName})

\* updateFinalizers has nothing to do when the controller's finalizer is on
\* both lists or on neither
FinalizerUnchanged(existing, desired) ==
  HasFinalizer(existing) = HasFinalizer(desired)

\* (variant: the patch names no resource version, so that it matches
\* whatever is stored)
PatchResourceVersion_None(existing) == store.rv

\* updateFinalizers: the resourceVersion the merge patch carries
PatchResourceVersion(existing) == existing.rv

\* Reconcile after reconcile: compare the finalizers, updateFinalizers
P_UpdateFinalizers ==
  /\ kind = "PubSubSource" /\ pc = "p_updFin"
  /\ IF DeepEqual(orig.fins, work.fins)
       THEN /\ pc' = "p_updStatus"
            /\ UNCHANGED <<store, cache, calls, events, result, quiet, orig,
                           work, rerr, uri>>
       ELSE IF ~cache.exists
       THEN /\ Return("NotFound")
            /\ UNCHANGED <<store, cache, calls, events>>
       ELSE IF FinalizerUnchanged(cache.fins, work.fins)
       THEN /\ pc' = "p_updStatus"
            /\ UNCHANGED <<store, cache, calls, events, result, quiet, orig,
                           work, rerr, uri>>
       ELSE \E e \in {WriteOutcome([cache EXCEPT
                                        !.rv = PatchResourceVersion(cache)]),
                        "Unavailable"} : Answer(e) /\
              /\ calls' = [calls EXCEPT !.finPatch = TRUE,
                             !.fault = (@ \/ e = "Unavailable")]
              /\ cache' = InformersCopy(cache, cache)
              /\ IF e = NoErr
                   THEN /\ store' = Collect(kind,
                             [store EXCEPT
                                !.fins = PatchedFinalizers(cache.fins,
                                                           work.fins),
                                !.rv = @ + 1])
                        /\ pc' = "p_updStatus"
                        /\ UNCHANGED <<result, quiet, orig, work, rerr, uri>>
                   ELSE /\ Return(e)
                        /\ UNCHANGED store
  /\ UNCHANGED <<extVars, envVars>>
  /\ UNCHANGED <<jobVars, kedaVars>>

\* (variant: Reconcile returns nil once the status update was accepted)
ReconcileResult_UpdateOnly(uErr, reconcileErr) == uErr

\* what Reconcile returns after updateStatus: the update's error if any,
\* otherwise the error of reconcile
ReconcileResult(uErr, reconcileErr) ==
  IF uErr # NoErr THEN uErr ELSE reconcileErr

\* Reconcile after updateFinalizers: compare the status, updateStatus
P_UpdateStatus ==
  /\ kind = "PubSubSource" /\ pc = "p_updStatus"
  /\ IF DeepEqual(orig.status, work.status)
       THEN /\ Return(rerr)
            /\ UNCHANGED <<store, cache, calls, events>>
       ELSE IF ~cache.exists
       THEN /\ Return("NotFound")
            /\ UNCHANGED <<store, cache, calls, events>>
       ELSE IF StatusUnchanged(cache, work)
       THEN /\ Return(rerr)
            /\ UNCHANGED <<store, cache, calls, events>>
       ELSE \E e \in {WriteOutcome(cache), "Unavailable"} : Answer(e) /\
              /\ store' = IF e = NoErr
                            THEN [store EXCEPT !.status = work.status,
                                               !.rv = @ + 1]
                            ELSE store
              /\ calls' = StatusCall(calls, e)
              /\ cache' = InformersCopy(cache,
                             [cache EXCEPT !.status = work.status])
              /\ Return(ReconcileResult(e, rerr))
  /\ UNCHANGED <<extVars, envVars>>
  /\ UNCHANGED <<jobVars, kedaVars>>

\* ============================================================ environment ==
\* an event outside the pass: the pass in flight no longer runs undisturbed
Disturb ==
  /\ calls' = [calls EXCEPT !.idem = FALSE, !.dist = TRUE]
  /\ quiet' = FALSE

\* the informer delivers the stored record to the cache
InformerSync ==
  /\ cache # store
  /\ store' = [store EXCEPT !.rv = 0]
  /\ cache' = store'
  /\ UNCHANGED <<events, pc, orig, work, rerr, uri, result, extVars, envVars,
                 calls, quiet>>
  /\ UNCHANGED <<jobVars, kedaVars>>

\* a user deletes the record: the deletion timestamp is set, and the record
\* is removed at once when it has no finalizer
UserDelete ==
  /\ store.exists /\ ~store.deleting
  /\ store' = Collect(kind, [store EXCEPT !.deleting = TRUE, !.rv = @ + 1])
  /\ Disturb
  /\ UNCHANGED events
  /\ UNCHANGED <<cache, pc, orig, work, rerr, uri, result, extVars, envVars>>
  /\ UNCHANGED <<jobVars, kedaVars>>

\* the owner of the foreign finalizer removes it from the deleting record
RemoveForeign ==
  /\ store.exists /\ store.deleting
  /\ foreignFinalizer \in NewString(store.fins)
  /\ store' = Collect(kind,
       [store EXCEPT !.fins = SelectSeq(@, LAMBDA f : f # foreignFinalizer),
                     !.rv = @ + 1])
  /\ Disturb
  /\ UNCHANGED events
  /\ UNCHANGED <<cache, pc, orig, work, rerr, uri, result, extVars, envVars>>
  /\ UNCHANGED <<jobVars, kedaVars>>

\* another controller adds its finalizer to the live record
AddForeign ==
  /\ store.exists /\ ~store.deleting
  /\ foreignFinalizer \notin NewString(store.fins)
  /\ store' = [store EXCEPT !.fins = Append(@, foreignFinalizer),
                            !.rv = @ + 1]
  /\ Disturb
  /\ Event
  /\ UNCHANGED <<cache, pc, orig, work, rerr, uri, result, extVars, envVars>>
  /\ UNCHANGED <<jobVars, kedaVars>>

\* another writer updates the status of the record
OtherWriter ==
  /\ store.exists /\ ~store.status.other
  /\ store' = [store EXCEPT !.status.other = TRUE, !.rv = @ + 1]
  /\ Disturb
  /\ Event
  /\ UNCHANGED <<cache, pc, orig, work, rerr, uri, result, extVars, envVars>>
  /\ UNCHANGED <<jobVars, kedaVars>>

\* somebody deletes a topic, a notification or the subscription at the provider
ExternalDelete ==
  /\ \/ \E t \in topics :
          topics' = topics \ {t} /\ UNCHANGED <<notifs, subExists>>
     \/ \E n \in notifs :
          notifs' = notifs \ {n} /\ UNCHANGED <<topics, subExists>>
     \/ subExists /\ subExists' = FALSE /\ UNCHANGED <<topics, notifs>>
  /\ Disturb
  /\ Event
  /\ UNCHANGED <<store, cache, pc, orig, work, rerr, uri, result, uuidCtr,
                 notifCtr, pullsub, deployments, envVars>>
  /\ UNCHANGED <<jobVars, kedaVars>>

\* the sink appears or disappears
SinkChange ==
  /\ sinkOK' = ~sinkOK
  /\ Disturb
  /\ Event
  /\ UNCHANGED <<kind, spec, store, cache, pc, orig, work, rerr, uri, result,
                 extVars>>
  /\ UNCHANGED <<jobVars, kedaVars>>

\* the PullSubscription created for the GCS becomes ready
PullSubReady ==
  /\ pullsub = "notready"
  /\ pullsub' = "ready"
  /\ Disturb
  /\ UNCHANGED events
  /\ UNCHANGED <<store, cache, pc, orig, work, rerr, uri, result, topics,
                 notifs, uuidCtr, notifCtr, subExists, deployments, envVars>>
  /\ UNCHANGED <<jobVars, kedaVars>>

\* the controller process dies in the middle of a pass and restarts
Crash ==
  /\ pc # "idle"
  /\ ReturnWith("crashed", FALSE)
  /\ Event
  /\ calls' = NoCalls
  /\ UNCHANGED <<store, cache, extVars, envVars>>
  /\ UNCHANGED <<jobVars, kedaVars>>

Next ==
  \/ G_Load \/ G_DeleteNotification \/ G_DeleteTopic \/ G_TopicExists
  \/ G_CreateTopic \/ G_PubSub \/ G_ListNotifications \/ G_AddNotification
  \/ G_Update
  \/ P_Load \/ P_SubExists \/ P_CreateSub \/ P_ReceiveAdapter \/ P_DelExists
  \/ P_Delete \/ P_UpdateFinalizers \/ P_UpdateStatus
  \/ InformerSync \/ UserDelete \/ RemoveForeign \/ AddForeign \/ OtherWriter
  \/ ExternalDelete \/ SinkChange \/ PullSubReady \/ Crash

Spec == Init /\ [][Next]_vars

\* ========================================================= operation job ==
\* operations.ActionExists, ActionCreate, ActionDelete
ActionExists == "exists"
ActionCreate == "create"
ActionDelete == "delete"

\* the values ACTION may have in the job's environment
JobActions == {ActionExists, ActionCreate, ActionDelete, "", "bogus"}

\* JobActionResult
JobActionResult(ok, err, id) ==
  [Result |-> ok, Error |-> err, JobId |-> id, ProjectId |-> ""]

\* writeTerminationMessage: the project is added, the record is written
writeTerminationMessage(n, log, res) ==
  Append(log, [res EXCEPT !.ProjectId = n.Project])

\* The result records Run hands to writeTerminationMessage, in order.  The
\* only calls are in the bodies of the create and the delete case, and both
\* bodies are commented out, so Run hands over none for any action.
RunResults(n) == <<>>

\* what Run returns
RunError(n) ==
  IF n.client = "nil" THEN "pub/sub client is nil"
  ELSE IF n.Action \in {ActionExists, ActionCreate, ActionDelete} THEN NoErr
  ELSE "unknown action value"

RECURSIVE WriteAll(_, _, _)
WriteAll(n, log, rs) ==
  IF rs = <<>> THEN log
  ELSE WriteAll(n, writeTerminationMessage(n, log, Head(rs)), Tail(rs))

\* JobOps.Run
J_Run ==
  /\ jpc = "start"
  /\ jpc' = "done"
  /\ jret' = RunError(job)
  /\ termLog' = IF job.client = "nil" THEN termLog
                ELSE WriteAll(job, termLog, RunResults(job))
  /\ UNCHANGED <<job, args, built, eventTypes, storageTypes, recVars,
                 kedaVars>>

\* strings.Join(elems, sep)
RECURSIVE Join(_, _)
Join(elems, sep) ==
  IF elems = <<>> THEN ""
  ELSE IF Len(elems) = 1 THEN elems[1]
  ELSE elems[1] \o sep \o Join(Tail(elems), sep)

\* corev1.EnvVar
EnvVar(name, value) == [Name |-> name, Value |-> value]

\* NewJobOps: the environment of the job's container
JobEnv(arg) ==
  <<EnvVar("ACTION", arg.Action), EnvVar("PROJECT_ID", arg.ProjectID),
    EnvVar("BUCKET", arg.Bucket)>>
  \o (IF arg.Action = ActionCreate
        THEN <<EnvVar("EVENT_TYPES", Join(arg.EventTypes, ":")),
               EnvVar("PUBSUB_TOPIC_ID", arg.TopicID)>>
      ELSE IF arg.Action = ActionDelete
        THEN <<EnvVar("NOTIFICATION_ID", arg.JobId)>>
      ELSE <<>>)

\* kmeta.NewControllerRef(owner)
NewControllerRef(owner) ==
  [Name |-> owner.Name, UID |-> owner.UID, Controller |-> TRUE,
   BlockOwnerDeletion |-> TRUE]

\* (variant: the job is built without an owner reference)
JobOwnerReferences_None(arg) == <<>>

\* NewJobOps: ObjectMeta.OwnerReferences of the job
JobOwnerReferences(arg) == <<NewControllerRef(arg.Owner)>>

backoffLimit == 3
parallelism == 1

\* NewJobOps
NewJobOps(arg) ==
  [Namespace |-> arg.Owner.Namespace,
   OwnerReferences |-> JobOwnerReferences(arg),
   BackoffLimit |-> backoffLimit,
   Parallelism |-> parallelism,
   Template |-> [Image |-> arg.Image, UID |-> arg.UID, Action |-> arg.Action,
                 Env |-> JobEnv(arg)]]

\* JobOps: the variables its envconfig tags declare required:"true"
RequiredEnv == {"ACTION", "PUBSUB_TOPIC_ID", "BUCKET"}

\* the names of the variables an environment sets
EnvNames(env) == {env[i].Name : i \in DOMAIN env}

\* the controller builds the operation job for args
J_NewJobOps ==
  /\ jpc # "none"
  /\ built = <<>>
  /\ built' = <<NewJobOps(args)>>
  /\ UNCHANGED <<job, jpc, jret, termLog, args, eventTypes, storageTypes,
                 recVars, kedaVars>>

JobInit ==
  /\ ReconcilerInit
  /\ kind = "GCS" /\ store.fins = <<>> /\ sinkOK
  /\ job \in [Action : JobActions, Project : {"", "p"}, Topic : {"", "t"},
               Bucket : {"b"}, JobId : {"", "42"}, client : {"nil", "set"}]
  /\ jpc = "start"
  /\ jret = "none"
  /\ termLog = <<>>
  /\ args \in [UID : {"uid-1"}, Image : {"img"}, Action : JobActions,
                ProjectID : {"p"}, Bucket : {"b"}, TopicID : {"", "t"},
                JobId : {"", "42"},
                EventTypes : {<<>>, <<"finalize">>, <<"finalize", "delete">>},
                Owner : Owners]
  /\ built = <<>>
  /\ eventTypes = <<>>
  /\ storageTypes = NoReturn
  /\ KedaIdle

JobNext == J_Run \/ J_NewJobOps

JobSpec == JobInit /\ [][JobNext]_vars

\* storageEventTypes: the storage importer's event types and the Google
\* storage types they map to
storageEventTypes ==
  [t \in {"finalize", "archive", "delete", "metadataUpdate"} |->
     CASE t = "finalize" -> "OBJECT_FINALIZE"
       [] t = "archive" -> "OBJECT_ARCHIVE"
       [] t = "delete" -> "OBJECT_DELETE"
       [] t = "metadataUpdate" -> "OBJECT_METADATA_UPDATE"]

\* storageEventTypes[eventType]: a key the map lacks yields the empty string
Lookup(eventType) ==
  IF eventType \in DOMAIN storageEventTypes
    THEN storageEventTypes[eventType]
    ELSE ""

\* JobOps.toStorageEventTypes
toStorageEventTypes(types) ==
  LET mapped == [i \in DOMAIN types |-> Lookup(types[i])] IN
  IF Len(mapped) = 0 THEN Append(mapped, "OBJECT_FINALIZE") ELSE mapped

\* the names a list of event types may hold: the four of the map, and one
\* the map does not know
EventTypeNames == DOMAIN storageEventTypes \cup {"bogus"}

\* the lists of at most n names
ListsUpTo(n) == UNION {[1..k -> EventTypeNames] : k \in 0..n}

\* toStorageEventTypes is called with eventTypes
J_toStorageEventTypes ==
  /\ storageTypes = NoReturn
  /\ storageTypes' = [returned |-> TRUE,
                      value |-> toStorageEventTypes(eventTypes)]
  /\ UNCHANGED <<job, jpc, jret, termLog, args, built, eventTypes, recVars,
                 kedaVars>>

EventInit ==
  /\ ReconcilerInit
  /\ kind = "GCS" /\ store.fins = <<>> /\ sinkOK
  /\ job = NoJob /\ jpc = "none" /\ jret = "none" /\ termLog = <<>>
  /\ args = NoArgs /\ built = <<>>
  /\ eventTypes \in ListsUpTo(MaxTypes)
  /\ storageTypes = NoReturn
  /\ KedaIdle

EventNext == J_toStorageEventTypes

EventSpec == EventInit /\ [][EventNext]_vars

\* ========================================= KEDA PullSubscription controller ==
\* duck.AutoscalingClassAnnotation, duck.KEDA
AutoscalingClassAnnotation == "autoscaling.knative.dev/class"
KEDA == "keda.autoscaling.knative.dev"

\* the annotations an object may carry: none, the KEDA class, another class
AnnotationSets ==
  {{}, {<<AutoscalingClassAnnotation, KEDA>>},
   {<<AutoscalingClassAnnotation, "hpa.autoscaling.knative.dev">>}}

\* pkgreconciler.AnnotationFilterFunc(key, value, allowUnset), applied to obj
AnnotationFilterFunc(key, value, allowUnset, obj) ==
  IF \E a \in obj.ann : a[1] = key
    THEN <<key, value>> \in obj.ann
    ELSE allowUnset

\* (variant: objects without the annotation pass the filter)
onlyKedaScaler_AllowUnset(obj) ==
  AnnotationFilterFunc(AutoscalingClassAnnotation, KEDA, TRUE, obj)

\* onlyKedaScaler
onlyKedaScaler(obj) ==
  AnnotationFilterFunc(AutoscalingClassAnnotation, KEDA, FALSE, obj)

\* cache.FilteringResourceEventHandler with FilterFunc onlyKedaScaler: the
\* callback of Handler a notification leads to, and the object it is given
FilteringResourceEventHandler(verb, old, new) ==
  LET newer == onlyKedaScaler(new)
      older == onlyKedaScaler(old) IN
  CASE verb = "add" ->
         IF newer THEN [call |-> "OnAdd", obj |-> new]
         ELSE [call |-> "none", obj |-> Absent]
    [] verb = "update" ->
         IF newer /\ older THEN [call |-> "OnUpdate", obj |-> new]
         ELSE IF newer THEN [call |-> "OnAdd", obj |-> new]
         ELSE IF older THEN [call |-> "OnDelete", obj |-> old]
         ELSE [call |-> "none", obj |-> Absent]
    [] verb = "delete" ->
         IF older THEN [call |-> "OnDelete", obj |-> old]
         ELSE [call |-> "none", obj |-> Absent]

\* impl.Enqueue: the key of the object
Enqueue(obj) == {obj.key}

\* impl.EnqueueControllerOf: the key of the controlling owner, if there is one
EnqueueControllerOf(obj) == IF obj.owner = "" THEN {} ELSE {obj.owner}

\* controller.HandleAll(h): every callback hands its object to h, which is
\* impl.Enqueue for PullSubscriptions and impl.EnqueueControllerOf for
\* Deployments
HandleAll(h, cb) ==
  IF cb.call = "none" THEN {}
  ELSE IF h = "Enqueue" THEN Enqueue(cb.obj)
  ELSE EnqueueControllerOf(cb.obj)

\* an informer delivers a notification to the handler registered with h
Notify(k, verb, old, new, h) ==
  LET enq == HandleAll(h, FilteringResourceEventHandler(verb, old, new)) IN
  /\ queue' = queue \cup enq
  /\ last' = [kind |-> k, verb |-> verb, old |-> old, new |-> new,
              enq |-> enq]

\* pullSubscriptionHandler: a PullSubscription is created
K_PullSubscriptionAdd ==
  /\ \E k \in Keys, a \in AnnotationSets :
       LET new == [key |-> k, ann |-> a, owner |-> ""] IN
       /\ pullsubs[k] = Absent
       /\ pullsubs' = [pullsubs EXCEPT ![k] = new]
       /\ Notify("PullSubscription", "add", Absent, new, "Enqueue")
  /\ UNCHANGED <<dep, recVars, jobVars>>

\* pullSubscriptionHandler: a PullSubscription is updated, or delivered again
\* by the periodic resync (then old and new are the same)
K_PullSubscriptionUpdate ==
  /\ \E k \in Keys, a \in AnnotationSets :
       LET new == [pullsubs[k] EXCEPT !.ann = a] IN
       /\ pullsubs[k] # Absent
       /\ pullsubs' = [pullsubs EXCEPT ![k] = new]
       /\ Notify("PullSubscription", "update", pullsubs[k], new, "Enqueue")
  /\ UNCHANGED <<dep, recVars, jobVars>>

\* pullSubscriptionHandler: a PullSubscription is deleted
K_PullSubscriptionDelete ==
  /\ \E k \in Keys :
       /\ pullsubs[k] # Absent
       /\ pullsubs' = [pullsubs EXCEPT ![k] = Absent]
       /\ Notify("PullSubscription", "delete", pullsubs[k], Absent, "Enqueue")
  /\ UNCHANGED <<dep, recVars, jobVars>>

\* the Deployment handler: a Deployment is created, with or without a
\* controlling owner
K_DeploymentAdd ==
  /\ \E a \in AnnotationSets, o \in Keys \cup {""} :
       LET new == [key |-> DeploymentKey, ann |-> a, owner |-> o] IN
       /\ dep = Absent
       /\ dep' = new
       /\ Notify("Deployment", "add", Absent, new, "EnqueueControllerOf")
  /\ UNCHANGED <<pullsubs, recVars, jobVars>>

\* the Deployment handler: the Deployment is updated or delivered again
K_DeploymentUpdate ==
  /\ \E a \in AnnotationSets :
       LET new == [dep EXCEPT !.ann = a] IN
       /\ dep # Absent
       /\ dep' = new
       /\ Notify("Deployment", "update", dep, new, "EnqueueControllerOf")
  /\ UNCHANGED <<pullsubs, recVars, jobVars>>

\* the Deployment handler: the Deployment is deleted
K_DeploymentDelete ==
  /\ dep # Absent
  /\ dep' = Absent
  /\ Notify("Deployment", "delete", dep, Absent, "EnqueueControllerOf")
  /\ UNCHANGED <<pullsubs, recVars, jobVars>>

\* a worker takes a key off the queue
K_Process ==
  /\ \E k \in queue : queue' = queue \ {k}
  /\ UNCHANGED <<pullsubs, dep, last, recVars, jobVars>>

KedaInit ==
  /\ ReconcilerInit
  /\ kind = "GCS" /\ store.fins = <<>> /\ sinkOK
  /\ JobIdle
  /\ KedaIdle

KedaNext ==
  \/ K_PullSubscriptionAdd \/ K_PullSubscriptionUpdate
  \/ K_PullSubscriptionDelete
  \/ K_DeploymentAdd \/ K_DeploymentUpdate \/ K_DeploymentDelete
  \/ K_Process

KedaSpec == KedaInit /\ [][KedaNext]_vars

\* ================================================================ claims ==
\* an external resource owned by the record exists at the provider
OwnedExternalExists == topics # {} \/ notifs # {} \/ subExists

\* this step is the reconciler's UpdateStatus request being accepted
StatusWritten == calls'.stOK /\ ~calls.stOK

\* C1: whenever an external resource owned by the record exists, the record
\* is in the store and carries the controller's finalizer.
C1_FinalizerWhileExternalExists ==
  OwnedExternalExists => store.exists /\ HasFinalizer(store.fins)

\* C2: the controller's finalizer leaves the working copy or the persisted
\* record only in a pass over a deleting record whose delete calls all
\* answered success or not-found; after a delete call answered another error
\* reconcile returns that error, Reconcile returns an error, and the finalizer
\* is on the working copy and on the persisted record as before.
OkDeletes == {NoErr, "NotFound"}

C2_FailedDeleteKeepsFinalizer ==
  (pc # "idle" /\ ~(calls.del \subseteq OkDeletes))
     => /\ rerr \in calls.del \ OkDeletes
        /\ HasFinalizer(work.fins) = HasFinalizer(orig.fins)

C2_FinalizerRemovalStep ==
  /\ (HasFinalizer(store.fins) /\ ~HasFinalizer(store'.fins))
       => orig.deleting /\ calls.del \subseteq OkDeletes /\ rerr = NoErr
  /\ (pc' # "idle" /\ HasFinalizer(work.fins) /\ ~HasFinalizer(work'.fins))
       => work.deleting /\ calls'.del \subseteq OkDeletes /\ rerr' = NoErr
  /\ (pc # "idle" /\ pc' = "idle" /\ ~(calls.del \subseteq OkDeletes))
       => /\ result' # NoErr
          /\ HasFinalizer(store'.fins) = HasFinalizer(store.fins)

C2_FinalizerOnlyAfterCleanup ==
  [](C2_FailedDeleteKeepsFinalizer) /\ [][C2_FinalizerRemovalStep]_vars

\* a pass over a deleting record ended with the error of its delete call, and
\* the persisted record still carries the finalizer
C2_Witness ==
  /\ pc = "idle" /\ result = "Unavailable"
  /\ "Unavailable" \in calls.del
  /\ store.exists /\ store.deleting /\ HasFinalizer(store.fins)

\* C3, in the form a finite run refutes: once reconciliation has settled
\* (a pass that started from the settled state returned nil without any
\* disturbance, and the informer has caught up), the external resource exists
\* iff the record is live, and the finalizer is absent iff no external
\* resource remains.
Settled ==
  pc = "idle" /\ quiet /\ calls.idem /\ ~calls.fault /\ cache = store

Converged ==
  /\ OwnedExternalExists <=> (store.exists /\ ~store.deleting)
  /\ ~HasFinalizer(store.fins) <=> ~OwnedExternalExists

C3_LeakFreedom == Settled => Converged

\* C4: a pass that starts after a pass that returned nil, with the cache equal
\* to the store and no disturbance since, sends no UpdateStatus, no finalizer
\* patch and no create call to the provider.
C4_Idempotence ==
  (calls.idem /\ ~calls.fault)
     => /\ ~calls.stWrite /\ ~calls.finPatch
        /\ ~calls.crTopic /\ ~calls.crNotif /\ ~calls.crSub

\* a second pass ran to its end and found the resource it had created
C4_Witness ==
  /\ pc = "idle" /\ result = NoErr
  /\ calls.idem /\ ~calls.fault
  /\ store.exists
  /\ calls.chkTopic = "exists" \/ calls.chkSub = "exists"

\* C5: the reconciler's UpdateStatus is accepted only if no other writer
\* changed the status since this pass loaded the record.
C5_NoSilentOverwrite ==
  [][StatusWritten => store.status.other = orig.status.other]_vars

\* C6: when a status update that met the first writer's change got Conflict,
\* the status persisted by the retry still contains that change.
C6_RetryKeepsFirstWriter ==
  (calls.retry /\ calls.mark /\ calls.stOK /\ store.exists)
     => store.status.other

\* C8: a create call is sent to the provider only after the existence check
\* of the same pass reported the identifier absent; when the check reported
\* it present the pass keeps the recorded identifier.
C8_CreateOnlyIfAbsent ==
  /\ calls.crTopic => calls.chkTopic = "absent"
  /\ calls.crNotif => calls.chkNotif = "absent"
  /\ calls.crSub => calls.chkSub = "absent"
  /\ (pc # "idle" /\ calls.chkTopic = "exists")
        => work.status.Topic = orig.status.Topic
  /\ (pc # "idle" /\ calls.chkNotif = "exists")
        => work.status.NotificationID = orig.status.NotificationID

\* a pass found the topic and the notification it had recorded, another one
\* found the subscription
C8_Witness ==
  \/ calls.chkTopic = "exists" /\ calls.chkNotif = "exists" /\ pc = "g_update"
  \/ calls.chkSub = "exists" /\ pc = "p_ra"

\* C9: when CreateTopic is called, the name it is called with is the topic
\* name in the persisted status.
C9_NamePersistedBeforeCreate ==
  [][(calls'.crTopic /\ ~calls.crTopic)
        => (store.exists /\ store.status.Topic = work.status.Topic)]_vars

\* C10: a status write of a pass over a non-deleting GCS record leaves a
\* non-empty persisted topic name as it is, and a second pass with nothing
\* changed makes no create call.
C10_TopicNameStable ==
  /\ [][(StatusWritten /\ kind = "GCS" /\ ~orig.deleting
           /\ store.status.Topic # 0)
          => store'.status.Topic = store.status.Topic]_vars
  /\ []((kind = "GCS" /\ calls.idem /\ ~calls.fault)
          => (~calls.crTopic /\ ~calls.crNotif))

\* C11: a pass over a deleting GCS record with a recorded notification id
\* whose delete call answered success or NotFound goes on to delete the
\* topic, and when such a pass returns nil the persisted record no longer
\* carries the controller's finalizer.
C11_NotFoundIsSuccess ==
  (kind = "GCS" /\ pc = "g_update" /\ orig.deleting
     /\ orig.status.NotificationID # 0 /\ calls.del \subseteq OkDeletes)
    => rerr = NoErr /\ ~HasFinalizer(work.fins)

C11_RemovalPersisted ==
  (kind = "GCS" /\ pc # "idle" /\ pc' = "idle" /\ orig.deleting
     /\ orig.status.NotificationID # 0 /\ result' = NoErr)
    => ~HasFinalizer(store'.fins)

C11_DeletionCompletes ==
  [](C11_NotFoundIsSuccess) /\ [][C11_RemovalPersisted]_vars

\* C12: when a provider delete call of a deleting pass answered NotFound (and
\* no delete call answered another error), the cleanup returns no error and
\* the controller's finalizer is off the working copy at the end of the
\* cleanup, for the notification, the topic and the subscription.
C12_DeleteNotFoundIsSuccess ==
  (pc \in {"g_update", "p_updFin"} /\ orig.deleting
     /\ "NotFound" \in calls.del /\ calls.del \subseteq OkDeletes)
    => rerr = NoErr /\ ~HasFinalizer(work.fins)

\* C13: at the end of the cleanup of a deleting record for which nothing was
\* recorded (GCS: no notification id and no topic; PubSubSource: no
\* subscription exists and none was deleted by this pass), unless a provider
\* call failed, no provider delete call was made, the cleanup returns no
\* error and the controller's finalizer is off the working copy.  This
\* includes a PubSubSource whose project id could not be resolved.
C13_NothingRecorded ==
  IF kind = "GCS"
    THEN orig.status.NotificationID = 0 /\ orig.status.Topic = 0
    ELSE ~subExists /\ calls.del = {}

C13_NothingToDeleteIsSuccess ==
  (pc \in {"g_update", "p_updFin"} /\ orig.deleting /\ rerr # "Unavailable"
     /\ C13_NothingRecorded)
    => calls.del = {} /\ rerr = NoErr /\ ~HasFinalizer(work.fins)

\* C14: in a pass over a non-deleting record whose sink could not be
\* resolved, reconcile returns an error, the working copy gets no
\* finalizer, no existence check and no create call is sent to the provider,
\* no finalizer patch is sent, and Reconcile returns an error leaving the
\* provider and the receive adapter as they were.
C14_UnresolvedSinkState ==
  (pc # "idle" /\ calls.noSink /\ ~orig.deleting)
    => /\ rerr # NoErr
       /\ work.fins = orig.fins
       /\ pc \in {"g_update", "p_updFin", "p_updStatus"}
       /\ ~calls.crTopic /\ ~calls.crNotif /\ ~calls.crSub
       /\ ~calls.finPatch

C14_UnresolvedSinkStep ==
  (pc # "idle" /\ calls.noSink /\ ~orig.deleting /\ pc' # pc)
    => /\ pc' = "idle" => result' # NoErr
       /\ store'.fins = store.fins
       /\ UNCHANGED <<topics, notifs, subExists, deployments, pullsub>>

C14_UnresolvedSinkCreatesNothing ==
  [](C14_UnresolvedSinkState) /\ [][C14_UnresolvedSinkStep]_vars

\* a pass over a live record ended with the error of the sink resolution
C14_Witness ==
  /\ pc = "idle" /\ result = "sink" /\ calls.noSink
  /\ store.exists /\ ~store.deleting

\* the sink condition of a status ("" when the status carries none)
SinkCondition(st) ==
  IF "SinkProvided" \in DOMAIN st THEN st.SinkProvided ELSE ""

\* C15: in a pass over a non-deleting record whose sink could not be
\* resolved, the working status has the sink condition False when reconcile
\* has returned, and when Reconcile returns the sink error (the status update
\* did not fail) the persisted status has the sink condition False.
C15_SinkConditionSet ==
  (pc # "idle" /\ calls.noSink /\ ~orig.deleting)
    => SinkCondition(work.status) = "False"

C15_SinkConditionStored ==
  (pc # "idle" /\ pc' = "idle" /\ calls.noSink /\ ~orig.deleting
     /\ result' = "sink" /\ store'.exists)
    => SinkCondition(store'.status) = "False"

C15_UnresolvedSinkVisible ==
  [](C15_SinkConditionSet) /\ [][C15_SinkConditionStored]_vars

\* C16: a Reconcile whose lister does not find the record returns nil at
\* once: no existence check, create or delete call went to the provider, no
\* status update and no finalizer patch was sent, and the store, the cache
\* and the provider are as before.
C16_NotFoundState ==
  calls.gone
    => /\ pc = "idle" /\ result = NoErr
       /\ ~calls.stWrite /\ ~calls.finPatch
       /\ ~calls.crTopic /\ ~calls.crNotif /\ ~calls.crSub
       /\ calls.chkTopic = "none" /\ calls.chkNotif = "none"
       /\ calls.chkSub = "none" /\ calls.del = {}

C16_NotFoundStep ==
  (pc = "idle" /\ ~cache.exists /\ calls' = StartCalls)
    => /\ pc' = "idle" /\ result' = NoErr
       /\ UNCHANGED <<store, cache, extVars>>

C16_NotFoundIsSuccess ==
  [](C16_NotFoundState) /\ [][C16_NotFoundStep]_vars

\* a Reconcile ran for a key whose record had been removed, with the record's
\* external resource still at the provider
C16_Witness ==
  /\ calls.gone /\ ~store.exists /\ result = NoErr
  /\ OwnedExternalExists

\* C17: no step of a pass (Reconcile, reconcile, updateFinalizers,
\* updateStatus), whether the pass succeeds or fails, changes the object in
\* the informer's cache.
C17_InformersCopyUntouched ==
  [][(pc' # pc \/ (pc = "idle" /\ pc' = "idle" /\ ~cache.exists))
       => cache' = cache]_vars

\* a pass has changed status and finalizers of its copy and has sent the
\* finalizer patch, and the cache still holds what the pass loaded
C17_Witness ==
  /\ pc = "p_updStatus" /\ calls.finPatch
  /\ work.status # orig.status /\ work.fins # orig.fins
  /\ cache = orig

\* C18: when a create step of a pass over a non-deleting record ended with a
\* permanent error (the spec has no topic, no project id is known, the
\* provider rejected the create), the condition of that step (GCS: topic
\* ready; PubSubSource: subscribed) is False on the working status, Reconcile
\* returns an error, and when it returns that error (the updates did not
\* fail) the condition is False in the persisted status.
C18_CreateRejected ==
  rerr \in {"AlreadyExists", "topic is required but not set",
            "project is required but not set"}

C18_FailedCondition(st) ==
  IF kind = "GCS" THEN st.TopicReady ELSE st.Subscribed

C18_ConditionSet ==
  (pc \in {"g_update", "p_updFin", "p_updStatus"} /\ ~orig.deleting
     /\ C18_CreateRejected)
    => C18_FailedCondition(work.status) = "False"

C18_ConditionStored ==
  (pc # "idle" /\ pc' = "idle" /\ ~orig.deleting /\ C18_CreateRejected
     /\ result' # "crashed")
    => /\ result' # NoErr
       /\ (result' = rerr /\ store'.exists)
            => C18_FailedCondition(store'.status) = "False"

C18_CreateFailureVisible ==
  [](C18_ConditionSet) /\ [][C18_ConditionStored]_vars

\* C19: when a pass that loaded the current, non-deleting record ends with
\* Reconcile returning the error of reconcile, the status then persisted is
\* not Ready.
C19_FailureIsNotReady ==
  [][(pc # "idle" /\ pc' = "idle" /\ ~orig.deleting /\ calls.fresh
        /\ rerr # NoErr /\ result' = rerr /\ store'.exists)
       => ~IsReady(store'.status)]_vars

\* C20: when a run of the job for the action exists, create or delete has
\* ended, exactly one result record has been written to the termination
\* log, whether Run returned nil or an error.
C20_ResultWrittenOnce ==
  (jpc = "done" /\ job.Action \in {ActionExists, ActionCreate, ActionDelete})
    => Len(termLog) = 1

\* C21: every job NewJobOps built is in the namespace of the Owner it was
\* built for and carries exactly one owner reference, a controller reference
\* that names that Owner.
C21_JobOwnedByOwner ==
  \A i \in DOMAIN built :
    /\ built[i].Namespace = args.Owner.Namespace
    /\ Len(built[i].OwnerReferences) = 1
    /\ built[i].OwnerReferences[1].Controller
    /\ built[i].OwnerReferences[1].Name = args.Owner.Name
    /\ built[i].OwnerReferences[1].UID = args.Owner.UID

\* a job was built for an owner in the second namespace
C21_Witness ==
  /\ built # <<>>
  /\ args.Owner.Namespace = "ns2" /\ built[1].Namespace = "ns2"
  /\ args.Action = ActionCreate

\* C22: in a pass over a non-deleting GCS record whose sink resolved, once
\* reconcilePubSub has returned a PullSubscription the PubSubSource-ready
\* condition is True iff that PullSubscription was Ready; and the working
\* status is Ready at the end of reconcileGCSSource only if this pass found
\* or created the topic, observed the PullSubscription Ready, found or
\* created the notification, and returned no error.
C22_ConditionMirrorsPullSubscription ==
  (kind = "GCS" /\ pc \in {"g_notif", "g_addNotif", "g_update"}
     /\ calls.psObs # "none")
    => (work.status.PubSubReady = "True" <=> calls.psObs = "ready")

C22_ReadyOnlyIfAllConfirmed ==
  (kind = "GCS" /\ pc = "g_update" /\ ~orig.deleting /\ ~calls.noSink
     /\ IsReady(work.status))
    => /\ rerr = NoErr
       /\ calls.chkTopic = "exists" \/ calls.crTopic
       /\ calls.psObs = "ready"
       /\ calls.chkNotif = "exists" \/ calls.crNotif

C23_DeletingNotBlocked ==
  (kind = "GCS" /\ pc # "idle" /\ calls.noSink /\ orig.deleting)
    => /\ rerr # "sink"
       /\ pc \in {"g_delNotif", "g_delTopic", "g_update"}
       /\ (pc \in {"g_delTopic", "g_update"}
             /\ orig.status.NotificationID # 0) => calls.del # {}
       /\ (pc = "g_update" /\ calls.del \subseteq OkDeletes)
            => /\ rerr = NoErr
               /\ work.status.Topic = 0
               /\ ~HasFinalizer(work.fins)

C23_LiveAborts ==
  (kind = "GCS" /\ pc # "idle" /\ calls.noSink /\ ~orig.deleting)
    => pc = "g_update" /\ rerr = "sink" /\ calls.del = {}

C23_LiveAbortStep ==
  (kind = "GCS" /\ pc # "idle" /\ pc' = "idle" /\ calls.noSink
     /\ ~orig.deleting) => result' # NoErr

C23_CleanupIgnoresSink ==
  [](C23_DeletingNotBlocked /\ C23_LiveAborts) /\ [][C23_LiveAbortStep]_vars

\* the cleanup of a deleting record with a recorded topic ran to its end
\* although the sink did not resolve
C23_Witness ==
  /\ kind = "GCS" /\ pc = "g_update" /\ calls.noSink /\ orig.deleting
  /\ orig.status.Topic # 0 /\ HasFinalizer(orig.fins)
  /\ calls.del # {} /\ rerr = NoErr /\ ~HasFinalizer(work.fins)

\* C24: in the cleanup of a deleting GCS record the topic delete is reached
\* only when the recorded notification is gone from the bucket; a failed
\* notification delete ends the cleanup with its error, the topics and the
\* working copy untouched; and the working copy loses its topic name or the
\* controller's finalizer only in the step after deleteTopic returned nil,
\* when neither the recorded notification nor the recorded topic exists.
C24_NotificationFirst ==
  (kind = "GCS" /\ pc = "g_delTopic")
    => /\ orig.deleting /\ rerr = NoErr /\ work = orig
       /\ orig.status.NotificationID \notin notifs

C24_CleanedOnlyAfterBoth ==
  (kind = "GCS" /\ pc = "g_update" /\ orig.deleting
     /\ (work.status.Topic # orig.status.Topic
           \/ HasFinalizer(work.fins) # HasFinalizer(orig.fins)))
    => /\ rerr = NoErr
       /\ calls.del \subseteq OkDeletes
       /\ orig.status.NotificationID \notin notifs
       /\ orig.status.Topic \notin topics
       /\ work.status.Topic = 0 /\ ~HasFinalizer(work.fins)

C24_Step ==
  /\ (kind = "GCS" /\ pc = "g_delNotif" /\ pc' # pc /\ rerr' # NoErr)
       => pc' = "g_update" /\ topics' = topics /\ work' = work
  /\ (kind = "GCS" /\ pc \in {"g_delNotif", "g_delTopic", "g_update"}
         /\ pc' # "idle" /\ work' # work)
       => pc = "g_delTopic" /\ rerr' = NoErr

C24_CleanupOrder ==
  [](C24_NotificationFirst /\ C24_CleanedOnlyAfterBoth) /\ [][C24_Step]_vars

\* both the recorded notification and the recorded topic were deleted by this
\* pass, and the working copy lost its topic name and the finalizer
C24_Witness ==
  /\ kind = "GCS" /\ pc = "g_update" /\ orig.deleting
  /\ orig.status.NotificationID # 0 /\ orig.status.Topic # 0
  /\ HasFinalizer(orig.fins) /\ calls.del = {NoErr}
  /\ work.status.Topic = 0 /\ ~HasFinalizer(work.fins)

\* this step ends a PubSubSource pass from pcs (and is not a crash)
C25_PassEnds(pcs) ==
  /\ kind = "PubSubSource" /\ pc \in pcs /\ pc' = "idle"
  /\ result' # "crashed"

C25_StatusStep ==
  C25_PassEnds({"p_updStatus"})
    => /\ (~DeepEqual(orig.status, work.status) /\ cache.exists
             /\ ~StatusUnchanged(cache, work)) => calls'.stWrite
       /\ calls'.stOK => (store'.status = work.status /\ result' = rerr)
       /\ (calls'.stWrite /\ ~calls'.stOK)
            => (result' # NoErr /\ store' = store)
       /\ (~calls'.stWrite
             /\ (DeepEqual(orig.status, work.status) \/ cache.exists))
            => result' = rerr

C25_FinalizerStep ==
  C25_PassEnds({"p_updFin"})
    => /\ result' # NoErr
       /\ ~calls'.stWrite
       /\ store'.status = store.status

C26_Others(fins) == NewString(fins) \ {finalizerName}

\* the finalizer lists of a record
C26_Lists ==
  {<<>>, <<finalizerName>>, <<foreignFinalizer>>,
   <<foreignFinalizer, finalizerName>>, <<finalizerName, foreignFinalizer>>}

\* C26: the list updateFinalizers patches has the other finalizers of the
\* record it read from the lister and the controller's finalizer iff the
\* working copy has it; the step of updateFinalizers sends no patch when the
\* controller's finalizer is on both or on neither, and an accepted patch
\* leaves the store with the other finalizers the lister's record has.
C26_PatchContent ==
  \A existing \in C26_Lists, desired \in C26_Lists :
    ~FinalizerUnchanged(existing, desired)
      => /\ C26_Others(PatchedFinalizers(existing, desired))
              = C26_Others(existing)
         /\ HasFinalizer(PatchedFinalizers(existing, desired))
              = HasFinalizer(desired)

C26_PatchStep ==
  (kind = "PubSubSource" /\ pc = "p_updFin" /\ pc' # pc
     /\ result' # "crashed")
    => /\ (cache.exists /\ FinalizerUnchanged(cache.fins, work.fins))
            => (~calls'.finPatch /\ store' = store)
       /\ store' # store
            => /\ calls'.finPatch
               /\ C26_Others(store'.fins) = C26_Others(cache.fins)
               /\ store'.exists
                    => HasFinalizer(store'.fins) = HasFinalizer(work.fins)

C26_OnlyOwnFinalizer == [](C26_PatchContent) /\ [][C26_PatchStep]_vars

\* an accepted patch added the controller's finalizer next to a foreign one
C26_Witness ==
  /\ kind = "PubSubSource" /\ pc = "p_updStatus" /\ calls.finPatch
  /\ store.fins = <<foreignFinalizer, finalizerName>>
  /\ orig.fins = <<foreignFinalizer>>

\* this step sends a finalizer patch
C27_PatchSent == calls'.finPatch /\ ~calls.finPatch

\* C27: a finalizer patch sent while the stored record is no longer the one
\* the lister holds is rejected: the store stays as it is and Reconcile
\* returns an error; and no step of a pass takes a finalizer of another
\* controller off the stored record.
C27_StalePatchRejected ==
  (C27_PatchSent /\ store # cache)
    => (store' = store /\ pc' = "idle" /\ result' # NoErr)

C27_ForeignKept ==
  (foreignFinalizer \in NewString(store.fins)
     /\ foreignFinalizer \notin NewString(store'.fins))
    => (pc' = pc /\ ~C27_PatchSent)

C27_PatchConditional ==
  [][C27_StalePatchRejected /\ C27_ForeignKept]_vars

\* a patch that would have added the controller's finalizer was rejected with
\* Conflict after another controller had added its own, which is still there
C27_Witness ==
  /\ kind = "PubSubSource" /\ pc = "idle" /\ result = "Conflict"
  /\ calls.finPatch /\ ~calls.stWrite
  /\ store.fins = <<foreignFinalizer>> /\ cache.fins = <<>>

\* the project could not be resolved in this pass
C28_Unresolved == kind = "PubSubSource" /\ pc # "idle" /\ calls.md = "failed"

\* C28: in a PubSubSource pass, when the spec names a project the working
\* status has exactly that project id and the metadata server was not asked;
\* otherwise the metadata server was asked and, when it answered, its value
\* is the project id; when it did not answer, reconcile returns the error
\* with the sink condition, the sink URI, the project id and the finalizers
\* of the working copy as loaded and without any call to the provider,
\* whether the record is being deleted or not, and Reconcile returns an error
\* leaving provider and receive adapter as they were.
C28_Resolved ==
  (kind = "PubSubSource" /\ pc # "idle")
    => /\ spec.Project # ""
            => (work.status.ProjectID = spec.Project /\ calls.md = "none")
       /\ spec.Project = "" => calls.md \in {"ok", "failed"}
       /\ calls.md = "ok" => work.status.ProjectID = "metadata-project"

C28_FailsFirst ==
  C28_Unresolved
    => /\ rerr = "project is required but not set"
       /\ pc \in {"p_updFin", "p_updStatus"}
       /\ work.fins = orig.fins
       /\ work.status.ProjectID = orig.status.ProjectID
       /\ work.status.SinkProvided = InitCond(orig.status.SinkProvided)
       /\ work.status.SinkURI = orig.status.SinkURI
       /\ uri = "" /\ ~calls.noSink
       /\ calls.chkSub = "none" /\ ~calls.crSub /\ calls.del = {}
       /\ ~calls.finPatch

C28_FailStep ==
  (C28_Unresolved /\ pc' # pc)
    => /\ pc' = "idle" => result' # NoErr
       /\ store'.fins = store.fins
       /\ UNCHANGED <<subExists, deployments>>

C28_ProjectResolution ==
  [](C28_Resolved /\ C28_FailsFirst) /\ [][C28_FailStep]_vars

\* the pass over a deleting record whose subscription exists stopped at the
\* project, the metadata server not answering
C28_Witness ==
  /\ C28_Unresolved /\ orig.deleting /\ subExists
  /\ HasFinalizer(orig.fins) /\ pc = "p_updFin"

\* the observed generation of a record
C29_Observed(r) == r.status.ObservedGeneration

\* the working copy's observed generation changes only in the step in which
\* createReceiveAdapter returned nil, in a pass over a non-deleting record
\* whose project, sink and subscription steps succeeded, and it becomes the
\* generation
C29_SetStep ==
  (kind = "PubSubSource" /\ pc # "idle" /\ pc' # "idle"
     /\ C29_Observed(work') # C29_Observed(work))
    => /\ pc = "p_ra" /\ pc' = "p_updFin"
       /\ rerr' = NoErr /\ ~orig.deleting
       /\ calls.md # "failed" /\ ~calls.noSink
       /\ IsReady(work'.status)
       /\ C29_Observed(work') = Generation

\* a pass that failed or that runs over a deleting record has the observed
\* generation it loaded
C29_FailingKeeps ==
  (kind = "PubSubSource" /\ pc # "idle" /\ (rerr # NoErr \/ orig.deleting))
    => C29_Observed(work) = C29_Observed(orig)

\* the stored observed generation changes only when a status update of a
\* pass is accepted, to the value of the working copy; and when the pass had
\* loaded the stored value, only after its reconcile returned nil on a
\* non-deleting record
C29_StoredStep ==
  (kind = "PubSubSource" /\ store'.exists
     /\ C29_Observed(store') # C29_Observed(store))
    => /\ StatusWritten
       /\ C29_Observed(store') = C29_Observed(work)
       /\ C29_Observed(orig) = C29_Observed(store)
            => /\ rerr = NoErr /\ ~orig.deleting
               /\ C29_Observed(store') = Generation

\* the errors only reconcile returns
C29_ReconcileErrors ==
  {"sink", "project is required but not set",
   "topic is required but not set", "AlreadyExists"}

\* C29 as stated: the observed generation is set as above, and whenever the
\* stored observed generation equals the generation, the reconcile of the
\* last pass over the record did not fail.
C29_LastPassSucceeded ==
  (kind = "PubSubSource" /\ pc = "idle" /\ ~calls.gone /\ store.exists
     /\ C29_Observed(store) = Generation)
    => result \notin C29_ReconcileErrors

C29_ObservedMeansLastPassSucceeded ==
  /\ [](C29_FailingKeeps /\ C29_LastPassSucceeded)
  /\ [][C29_SetStep]_vars

\* C29, amended: the observed generation is set only at the end of a
\* non-deleting pass in which every step succeeded, a failing pass or a
\* deletion pass leaves it as loaded, and a pass that had loaded the stored
\* value changes it only when the status of such a successful pass is
\* accepted; so an observed generation equal to the generation means that
\* some pass fully succeeded, not that the last one did.
C29_ObservedOnlyOnSuccess ==
  [](C29_FailingKeeps) /\ [][C29_SetStep /\ C29_StoredStep]_vars

\* a pass failed on a record whose stored observed generation is the
\* generation, and left it so
C29_Witness ==
  /\ kind = "PubSubSource" /\ pc = "idle" /\ result = "sink"
  /\ store.exists /\ C29_Observed(store) = Generation

\* C30: createReceiveAdapter sends a create only after its list in the same
\* pass answered without error and showed no Deployment controlled by the
\* source; when the list showed one, or failed, the Deployments stay as they
\* are; and there is never more than one Deployment controlled by the
\* source.
C30_CreateOnlyIfNoneListed ==
  /\ calls.crDep => calls.lsDep = "absent"
  /\ deployments <= 1

C30_ListStep ==
  (kind = "PubSubSource" /\ pc = "p_ra" /\ pc' = "p_updFin")
    => /\ calls'.lsDep = "found"
            => (~calls'.crDep /\ rerr' = NoErr /\ UNCHANGED deployments)
       /\ calls'.lsDep = "failed"
            => (~calls'.crDep /\ rerr' # NoErr /\ UNCHANGED deployments)
       /\ calls'.lsDep = "absent" => (calls'.crDep /\ deployments = 0)

C30_OneReceiveAdapter ==
  [](C30_CreateOnlyIfNoneListed) /\ [][C30_ListStep]_vars

\* a later pass found the Deployment an earlier pass had created and reused
\* it
C30_Witness ==
  /\ kind = "PubSubSource" /\ pc = "p_updFin"
  /\ calls.lsDep = "found" /\ ~calls.crDep
  /\ deployments = 1 /\ rerr = NoErr

\* the object carries the KEDA autoscaling-class annotation
C31_Annotated(obj) == <<AutoscalingClassAnnotation, KEDA>> \in obj.ann

\* the object a notification is about: the new one, the old one of a delete
C31_Notified == IF last.verb = "delete" THEN last.old ELSE last.new

\* the key a notification may enqueue: the object's for a PullSubscription,
\* the controlling owner's for a Deployment
C31_Key ==
  IF last.kind = "Deployment" THEN C31_Notified.owner ELSE C31_Notified.key

\* C31 as stated: a notification for a PullSubscription, or for a Deployment
\* with a controlling owner, enqueues the key iff the object it is about
\* carries the KEDA annotation.
C31_EnqueuedIffAnnotated ==
  (last.kind # "none" /\ C31_Key # "")
    => /\ last.enq \subseteq {C31_Key}
       /\ last.enq # {} <=> C31_Annotated(C31_Notified)

\* C31, amended: the notification enqueues nothing but that key, and it
\* enqueues it iff the old or the new object carries the KEDA annotation:
\* also the update that takes the annotation off enqueues the key; an
\* object that never carried the annotation enqueues nothing; a Deployment
\* without controlling owner enqueues nothing.
C31_EnqueuedIffEverAnnotated ==
  /\ (last.kind # "none" /\ C31_Key # "")
       => /\ last.enq \subseteq {C31_Key}
          /\ last.enq # {}
               <=> (C31_Annotated(last.old) \/ C31_Annotated(last.new))
  /\ (last.kind # "none" /\ C31_Key = "") => last.enq = {}

\* the update that took the KEDA annotation off a PullSubscription enqueued
\* its key
C31_Witness ==
  /\ last.kind = "PullSubscription" /\ last.verb = "update"
  /\ C31_Annotated(last.old) /\ ~C31_Annotated(last.new)
  /\ last.enq = {last.new.key} /\ last.new.key \in queue

\* C32: the environment of a job NewJobOps built for the action exists,
\* create or delete sets every variable JobOps declares required.
C32_RequiredEnvSet ==
  \A i \in DOMAIN built :
    args.Action \in {ActionExists, ActionCreate, ActionDelete}
      => RequiredEnv \subseteq EnvNames(built[i].Template.Env)

\* the Google storage event types
C33_AllStorageTypes ==
  {"OBJECT_FINALIZE", "OBJECT_ARCHIVE", "OBJECT_DELETE",
   "OBJECT_METADATA_UPDATE"}

\* the elements of a list
C33_Elements(list) == {list[i] : i \in DOMAIN list}

\* C33: for an empty list of event types toStorageEventTypes returns all
\* storage event types.
C33_OmittedMeansAll ==
  (storageTypes.returned /\ eventTypes = <<>>)
    => C33_Elements(storageTypes.value) = C33_AllStorageTypes

\* C34: what toStorageEventTypes returns is a non-empty list of storage
\* event types, as long as the input when that is not empty.
C34_OutputIsStorageTypes ==
  storageTypes.returned
    => /\ Len(storageTypes.value) >= 1
       /\ \A i \in DOMAIN storageTypes.value :
            storageTypes.value[i] \in C33_AllStorageTypes
       /\ eventTypes # <<>> => Len(storageTypes.value) = Len(eventTypes)

====
